---- MODULE Spec2Model ----
(***************************************************************************)
(* A model of squirrel.go: the debug renderer (DebugSqlizer), the YQL      *)
(* argument codec (castArgToYQL, castArgsToYQL), the YQL assembler         *)
(* (prepareYQLString, prepareYQLParams), the execution helpers (ExecWith,  *)
(* QueryWith, QueryRowWith) and the runner adapter (setRunWith).           *)
(*                                                                         *)
(* Go strings are sequences of one-character strings; a Go slice index p   *)
(* is 0-based, so s[:p] is SubSeq(s, 1, p) and s[p+1:] is                  *)
(* SubSeq(s, p + 2, Len(s)).                                               *)
(***************************************************************************)
EXTENDS Integers, Sequences, FiniteSets, TLC

VARIABLES
    \* DebugSqlizer
    rpc,          \* position in DebugSqlizer: "idle", "start", "loop", "after", "done"
    toSql,        \* what s.ToSql() returns: [err, text, args]
    debugger,     \* "none" when s is no placeholderDebugger, else its debugPlaceholder()
    placeholder,  \* the local variable placeholder
    sql,          \* the local variable sql (the cursor: the text not yet scanned)
    buf,          \* the bytes.Buffer
    i,            \* the local variable i (arguments consumed)
    rresult,      \* the string DebugSqlizer returns, by kind
    \* castArgToYQL on one value
    oneArg,       \* the argument
    oneRes,       \* the result: [status, vals, type]
    \* castArgsToYQL, prepareYQLString, prepareYQLParams
    cpc,          \* position: "idle", "cast", "casted", "declared", "bound", "done"
    cargs,        \* the argument list given to castArgsToYQL
    prepIn,       \* the argument list given to prepareYQLString and prepareYQLParams
    castRes,      \* castArgsToYQL's result: [status, vals, type]
    body,         \* the query body handed to prepareYQLString
    strRes,       \* prepareYQLString's result: [ok, text]
    parRes,       \* prepareYQLParams's result: [ok, params]
    recastRes,    \* castArgsToYQL applied to its own output
    \* ExecWith, QueryWith, QueryRowWith
    epc,          \* position: "idle", "start", "produced", "done", "scanned"
    op,           \* which helper runs: "Exec", "Query", "QueryRow"
    prod,         \* what s.ToSql() returns: [err, query, args]
    dbReply,      \* what the backend answers when called: [val, err]
    calls,        \* the calls the backend has received, in order
    eres,         \* what the helper returned
    scanRes,      \* what Scan on the returned row gave
    \* setRunWith
    wpc,          \* position: "idle", "start", "set"
    backend,      \* the runner handed to setRunWith: [id, ctx, std]
    stored,       \* the value stored under "RunWith": [wrap, inner]
    wcalls        \* the calls made on the stored runner, with what reached the backend

renderVars == <<rpc, toSql, debugger, placeholder, sql, buf, i, rresult>>
oneVars == <<oneArg, oneRes>>
castVars == <<cpc, cargs, prepIn, castRes, body, strRes, parRes, recastRes>>
execVars == <<epc, op, prod, dbReply, calls, eres, scanRes>>
runVars == <<wpc, backend, stored, wcalls>>
vars == <<renderVars, oneVars, castVars, execVars, runVars>>

(***************************************************************************)
(* Bounds of the model.                                                    *)
(***************************************************************************)
MaxLen == 5        \* longest query text
MaxArgs == 2       \* longest argument list of the renderer
MaxList == 3       \* longest argument list of the codec and the assembler
MaxCalls == 2      \* calls made through a stored runner

\* The values of a set of sequences of length at most n.
SeqUpTo(S, n) == UNION {[1..m -> S] : m \in 0..n}

Min(S) == CHOOSE x \in S : \A y \in S : x <= y

RECURSIVE Itoa(_)
\* fmt's %d of a non-negative integer: its decimal digits.
Itoa(n) ==
    LET d == <<"0", "1", "2", "3", "4", "5", "6", "7", "8", "9">>
    IN IF n < 10 THEN <<d[n + 1]>> ELSE Itoa(n \div 10) \o <<d[(n % 10) + 1]>>

(***************************************************************************)
(* Idle values: what a specification leaves the other components at.       *)
(***************************************************************************)
NoRes == [kind |-> "none", text |-> <<>>, n |-> 0]

RenderIdle ==
    /\ rpc = "idle"
    /\ toSql = [err |-> "", text |-> <<>>, args |-> <<>>]
    /\ debugger = "none"
    /\ placeholder = <<>>
    /\ sql = <<>>
    /\ buf = <<>>
    /\ i = 0
    /\ rresult = NoRes

NoTV == [type |-> "", opt |-> FALSE, null |-> FALSE, v |-> 0]
NoArg == [go |-> "", ptr |-> FALSE, nil |-> FALSE, v |-> 0, tv |-> NoTV]
NoCast == [status |-> "none", vals |-> <<>>, isnil |-> TRUE, type |-> "", wrap |-> ""]
NoStr == [status |-> "none", text |-> <<>>, type |-> ""]
NoPar == [status |-> "none", params |-> <<>>, isnil |-> TRUE, type |-> ""]

OneIdle ==
    /\ oneArg = NoArg
    /\ oneRes = NoCast

CastIdle ==
    /\ cpc = "idle"
    /\ cargs = <<>>
    /\ prepIn = <<>>
    /\ castRes = NoCast
    /\ body = <<>>
    /\ strRes = NoStr
    /\ parRes = NoPar
    /\ recastRes = NoCast

NoReply == [val |-> "", err |-> ""]

ExecIdle ==
    /\ epc = "idle"
    /\ op = ""
    /\ prod = [err |-> "", query |-> "", args |-> <<>>]
    /\ dbReply = NoReply
    /\ calls = <<>>
    /\ eres = NoReply
    /\ scanRes = ""

RunIdle ==
    /\ wpc = "idle"
    /\ backend = [id |-> "", ctx |-> FALSE, std |-> FALSE]
    /\ stored = [wrap |-> "", inner |-> ""]
    /\ wcalls = <<>>

(***************************************************************************)
(* DebugSqlizer (squirrel.go:143-192).                                     *)
(***************************************************************************)
Alphabet == {"a", "?", "$"}
Tokens == {"?", "$"}

\* Argument values of the render model: true, the string "?$", the int 15.
BoolArg == [t |-> "bool", b |-> TRUE, s |-> <<>>, n |-> 0]
StrArg == [t |-> "string", b |-> FALSE, s |-> <<"?", "$">>, n |-> 0]
IntArg == [t |-> "int", b |-> FALSE, s |-> <<>>, n |-> 15]
RenderArgs == {BoolArg, StrArg, IntArg}

\* fmt's %v of an argument.
FormatV(a) ==
    CASE a.t = "bool" -> IF a.b THEN <<"t", "r", "u", "e">> ELSE <<"f", "a", "l", "s", "e">>
      [] a.t = "string" -> a.s
      [] a.t = "int" -> Itoa(a.n)

\* strings.Index(s, sub): the 0-based index of the first occurrence, or -1.
Index(s, sub) ==
    LET hits == {q \in 0..(Len(s) - Len(sub)) : SubSeq(s, q + 1, q + Len(sub)) = sub}
    IN IF hits = {} THEN -1 ELSE Min(hits)

IsEscapeDoubledToken(s, p) == Len(s) - p > 1 /\ s[p + 2] = s[p + 1]

\* len(sql[p:]) > 1 && sql[p:p+2] == "??"
IsEscape(s, p) == Len(s) - p > 1 /\ SubSeq(s, p + 1, p + 2) = <<"?", "?">>

\* i+1 > len(args)
TooMany(n, args) == n + 1 > Len(args)

NotEnoughOffByOne(n, args) == n + 1 < Len(args)

\* i < len(args)
NotEnough(n, args) == n < Len(args)

PlacedNoQuotes(b, s, p, a) == b \o SubSeq(s, 1, p) \o FormatV(a)

\* buf.WriteString(sql[:p]); fmt.Fprintf(buf, "'%v'", args[i])
Placed(b, s, p, a) == b \o SubSeq(s, 1, p) \o <<"'">> \o FormatV(a) \o <<"'">>

RenderInit ==
    /\ rpc = "start"
    /\ \/ /\ toSql \in [err : {""}, text : SeqUpTo(Alphabet, MaxLen),
                        args : SeqUpTo(RenderArgs, MaxArgs)]
          /\ debugger \in {"none"} \cup Tokens
       \/ /\ toSql = [err |-> "e1", text |-> <<>>, args |-> <<>>]
          /\ debugger = "none"
    /\ placeholder = <<>>
    /\ sql = <<>>
    /\ buf = <<>>
    /\ i = 0
    /\ rresult = NoRes

\* Lines 144-158: ToSql, the early return on its error, the choice of placeholder.
DebugStart ==
    /\ rpc = "start"
    /\ IF toSql.err # ""
       THEN /\ rpc' = "done"
            /\ rresult' = [kind |-> "ToSqlError", text |-> <<>>, n |-> 0]
            /\ UNCHANGED <<placeholder, sql>>
       ELSE /\ rpc' = "loop"
            /\ placeholder' = IF debugger = "none" THEN <<"?">> ELSE <<debugger>>
            /\ sql' = toSql.text
            /\ UNCHANGED rresult
    /\ UNCHANGED <<toSql, debugger, buf, i>>
    /\ UNCHANGED <<oneVars, castVars, execVars, runVars>>

\* Lines 160-163: no placeholder is left, the loop ends.
DebugBreak ==
    /\ rpc = "loop"
    /\ Index(sql, placeholder) = -1
    /\ rpc' = "after"
    /\ UNCHANGED <<toSql, debugger, placeholder, sql, buf, i, rresult>>
    /\ UNCHANGED <<oneVars, castVars, execVars, runVars>>

\* Lines 164-170: the escape branch. The break of line 167 needs
\* len(sql[p:]) = 1 inside a branch taken only when len(sql[p:]) > 1.
DebugEscape ==
    LET p == Index(sql, placeholder)
    IN /\ rpc = "loop"
       /\ p # -1
       /\ IsEscape(sql, p)
       /\ buf' = buf \o SubSeq(sql, 1, p) \o <<"?">>
       /\ IF Len(sql) - p = 1
          THEN rpc' = "after" /\ sql' = sql
          ELSE rpc' = "loop" /\ sql' = SubSeq(sql, p + 3, Len(sql))
       /\ UNCHANGED <<toSql, debugger, placeholder, i, rresult>>
       /\ UNCHANGED <<oneVars, castVars, execVars, runVars>>

\* Lines 172-176: a placeholder with no argument left.
DebugTooMany ==
    LET p == Index(sql, placeholder)
    IN /\ rpc = "loop"
       /\ p # -1
       /\ ~IsEscape(sql, p)
       /\ TooMany(i, toSql.args)
       /\ rpc' = "done"
       /\ rresult' = [kind |-> "TooManyPlaceholders", text |-> sql, n |-> Len(toSql.args)]
       /\ UNCHANGED <<toSql, debugger, placeholder, sql, buf, i>>
       /\ UNCHANGED <<oneVars, castVars, execVars, runVars>>

\* Lines 177-181: a placeholder takes the next argument.
DebugPlace ==
    LET p == Index(sql, placeholder)
    IN /\ rpc = "loop"
       /\ p # -1
       /\ ~IsEscape(sql, p)
       /\ ~TooMany(i, toSql.args)
       /\ buf' = Placed(buf, sql, p, toSql.args[i + 1])
       /\ sql' = SubSeq(sql, p + 2, Len(sql))
       /\ i' = i + 1
       /\ UNCHANGED <<rpc, toSql, debugger, placeholder, rresult>>
       /\ UNCHANGED <<oneVars, castVars, execVars, runVars>>

\* Lines 184-188: arguments are left over.
DebugNotEnough ==
    /\ rpc = "after"
    /\ NotEnough(i, toSql.args)
    /\ rpc' = "done"
    /\ rresult' = [kind |-> "NotEnoughPlaceholders", text |-> sql, n |-> Len(toSql.args)]
    /\ UNCHANGED <<toSql, debugger, placeholder, sql, buf, i>>
    /\ UNCHANGED <<oneVars, castVars, execVars, runVars>>

\* Lines 189-191: the rest of the text is appended and the buffer returned.
DebugFinish ==
    /\ rpc = "after"
    /\ ~NotEnough(i, toSql.args)
    /\ rpc' = "done"
    /\ buf' = buf \o sql
    /\ rresult' = [kind |-> "ok", text |-> buf \o sql, n |-> 0]
    /\ UNCHANGED <<toSql, debugger, placeholder, sql, i>>
    /\ UNCHANGED <<oneVars, castVars, execVars, runVars>>

RenderNext ==
    \/ DebugStart
    \/ DebugBreak
    \/ DebugEscape
    \/ DebugTooMany
    \/ DebugPlace
    \/ DebugNotEnough
    \/ DebugFinish

(***************************************************************************)
(* The render contract, read off the query text one character at a time.   *)
(* An occurrence of the token is escaped when the token is "?" and the     *)
(* next character is "?" too; the pair is then one unit.                   *)
(***************************************************************************)
\* The token in effect.
Tok == IF debugger = "none" THEN "?" ELSE debugger

EscapedAt(t, tok, j) == tok = "?" /\ j < Len(t) /\ t[j] = "?" /\ t[j + 1] = "?"

RECURSIVE RefCount(_, _, _)
\* The non-escaped occurrences of tok in t from position j on.
RefCount(t, tok, j) ==
    IF j > Len(t) THEN 0
    ELSE IF t[j] # tok THEN RefCount(t, tok, j + 1)
    ELSE IF EscapedAt(t, tok, j) THEN RefCount(t, tok, j + 2)
    ELSE 1 + RefCount(t, tok, j + 1)

RECURSIVE RefRender(_, _, _, _, _)
\* t from position j on, with k arguments already used: every non-escaped
\* occurrence replaced by the next argument in quotes, every escape pair by
\* one "?", every other character kept.
RefRender(t, tok, args, j, k) ==
    IF j > Len(t) THEN <<>>
    ELSE IF t[j] # tok THEN <<t[j]>> \o RefRender(t, tok, args, j + 1, k)
    ELSE IF EscapedAt(t, tok, j) THEN <<"?">> \o RefRender(t, tok, args, j + 2, k)
    ELSE <<"'">> \o FormatV(args[k + 1]) \o <<"'">> \o RefRender(t, tok, args, j + 1, k + 1)

RECURSIVE RefRemainder(_, _, _, _, _, _)
\* The text left when the scan of t stops with n arguments: from `from`, the
\* position after the last escape or placeholder handled, to the end. The scan
\* stops at the first non-escaped occurrence met with all n arguments used, or
\* at the end of t.
RefRemainder(t, tok, n, j, k, from) ==
    IF j > Len(t) THEN SubSeq(t, from, Len(t))
    ELSE IF t[j] # tok THEN RefRemainder(t, tok, n, j + 1, k, from)
    ELSE IF EscapedAt(t, tok, j) THEN RefRemainder(t, tok, n, j + 2, k, j + 2)
    ELSE IF k = n THEN SubSeq(t, from, Len(t))
    ELSE RefRemainder(t, tok, n, j + 1, k + 1, j + 1)

RenderDone == rpc = "done" /\ toSql.err = ""

\* C1: with as many arguments as non-escaped placeholders, DebugSqlizer returns
\* the text with the i-th non-escaped placeholder replaced by the i-th argument's
\* %v form in single quotes and the other characters kept in order; placeholder
\* characters inside an inserted argument are not scanned again.
C1_RenderReplaces ==
    (RenderDone /\ RefCount(toSql.text, Tok, 1) = Len(toSql.args))
        => /\ rresult.kind = "ok"
           /\ rresult.text = RefRender(toSql.text, Tok, toSql.args, 1, 0)

C1_Witness ==
    /\ RenderDone
    /\ rresult.kind = "ok"
    /\ Len(toSql.args) = 2
    /\ toSql.args[1] = StrArg
    /\ rresult.text = RefRender(toSql.text, Tok, toSql.args, 1, 0)

\* The next occurrence of the token is followed by the same token.
DoubledAt ==
    LET p == Index(sql, <<Tok>>)
    IN rpc = "loop" /\ p # -1 /\ Len(sql) - p > 1 /\ sql[p + 2] = Tok

\* The step writes the text before the pair and one token, moves past both
\* token characters and uses no argument.
EscapeEffect ==
    LET p == Index(sql, <<Tok>>)
    IN /\ buf' = buf \o SubSeq(sql, 1, p) \o <<Tok>>
       /\ sql' = SubSeq(sql, p + 3, Len(sql))
       /\ i' = i
       /\ rpc' = "loop"

\* The step handles the first token of the pair as a placeholder: it takes an
\* argument and moves past one token character, or fails for want of one.
PlaceholderEffect ==
    LET p == Index(sql, <<Tok>>)
    IN \/ /\ i < Len(toSql.args)
          /\ buf' = buf \o SubSeq(sql, 1, p) \o <<"'">> \o FormatV(toSql.args[i + 1]) \o <<"'">>
          /\ sql' = SubSeq(sql, p + 2, Len(sql))
          /\ i' = i + 1
       \/ /\ i >= Len(toSql.args)
          /\ rresult'.kind = "TooManyPlaceholders"
          /\ i' = i

\* C2 as stated: whatever the token, a doubled token is an escape.
C2_EscapeAnyToken == [][DoubledAt => EscapeEffect]_vars

\* C2: a doubled token is an escape when the token is "?"; with any other token
\* the first of the two is handled as a placeholder.
C2_EscapeQuestionOnly ==
    [][/\ (DoubledAt /\ Tok = "?") => EscapeEffect
       /\ (DoubledAt /\ Tok # "?") => PlaceholderEffect]_vars

C2_Witness ==
    /\ rpc = "loop"
    /\ Tok = "?"
    /\ toSql.text = <<"a", "?", "?", "a">>
    /\ buf = <<"a", "?">>
    /\ sql = <<"a">>
    /\ i = 0

\* C3: with k non-escaped placeholders and n arguments, k > n gives the
\* TooManyPlaceholders failure with the text left at the first placeholder that
\* finds no argument and n; k < n gives the NotEnoughPlaceholders failure, after
\* the whole text was scanned, with the text left and n; k = n succeeds.
C3_Outcome ==
    RenderDone =>
        LET k == RefCount(toSql.text, Tok, 1)
            n == Len(toSql.args)
            rest == RefRemainder(toSql.text, Tok, n, 1, 0, 1)
        IN /\ k > n => /\ rresult = [kind |-> "TooManyPlaceholders", text |-> rest, n |-> n]
                       /\ i = n
                       /\ Index(rest, <<Tok>>) # -1
           /\ k < n => /\ rresult = [kind |-> "NotEnoughPlaceholders", text |-> rest, n |-> n]
                       /\ i = k
                       /\ Index(rest, <<Tok>>) = -1
           /\ k = n => rresult.kind = "ok"

C3_Witness ==
    /\ RenderDone
    /\ rresult.kind = "TooManyPlaceholders"
    /\ rresult.n = 1
    /\ i = 1
    /\ rresult.text # toSql.text

InitRender == RenderInit /\ OneIdle /\ CastIdle /\ ExecIdle /\ RunIdle

SpecRender == InitRender /\ [][RenderNext]_vars

(***************************************************************************)
(* Go values handed to the codec. A value has a dynamic type (go, with ptr *)
(* for a pointer to it), nil for a nil pointer or nil slice, and a payload *)
(* v; a value that already is a types.Value carries it in tv.              *)
(***************************************************************************)
Native(kind, v) == [go |-> kind, ptr |-> FALSE, nil |-> FALSE, v |-> v, tv |-> NoTV]
Ptr(kind, v) == [go |-> kind, ptr |-> TRUE, nil |-> FALSE, v |-> v, tv |-> NoTV]
NilPtr(kind) == [go |-> kind, ptr |-> TRUE, nil |-> TRUE, v |-> 0, tv |-> NoTV]
NilSlice(kind) == [go |-> kind, ptr |-> FALSE, nil |-> TRUE, v |-> 0, tv |-> NoTV]
\* The nil interface value, whose %T is <nil>.
NilInterface == [go |-> "<nil>", ptr |-> FALSE, nil |-> TRUE, v |-> 0, tv |-> NoTV]
Typed(tv) == [go |-> "types.Value", ptr |-> FALSE, nil |-> FALSE, v |-> 0, tv |-> tv]

\* A types.Value: a value of a primitive type, or of Optional<type>, null or not.
Present(type, v) == [type |-> type, opt |-> FALSE, null |-> FALSE, v |-> v]
OptionalOf(type, v) == [type |-> type, opt |-> TRUE, null |-> FALSE, v |-> v]
NullOf(type) == [type |-> type, opt |-> TRUE, null |-> TRUE, v |-> 0]

\* types.Nullable<T>Value(p): the null of Optional<T> for a nil p, else *p in it.
Nullable(type, arg) == IF arg.nil THEN NullOf(type) ELSE OptionalOf(type, arg.v)

\* fmt's %T of a value.
TypeName(arg) == IF arg.ptr THEN "*" \o arg.go ELSE arg.go

CastOk(tv) == [status |-> "ok", vals |-> <<tv>>, isnil |-> FALSE, type |-> "", wrap |-> ""]
\* fmt.Errorf("unsupported type `%T`", arg)
Unsupported(arg) ==
    [status |-> "err", vals |-> <<>>, isnil |-> TRUE,
     type |-> TypeName(arg), wrap |-> ""]
\* A nil pointer dereference: the goroutine panics, nothing is returned.
Panic == [status |-> "panic", vals |-> <<>>, isnil |-> TRUE, type |-> "", wrap |-> ""]

\* The types whose value and pointer arms hand the argument to the SDK as it is.
DirectType(kind) ==
    CASE kind = "bool" -> "Bool"
      [] kind = "int8" -> "Int8"
      [] kind = "int16" -> "Int16"
      [] kind = "int32" -> "Int32"
      [] kind = "int64" -> "Int64"
      [] kind = "uint8" -> "Uint8"
      [] kind = "uint16" -> "Uint16"
      [] kind = "uint32" -> "Uint32"
      [] kind = "uint64" -> "Uint64"
      [] kind = "float32" -> "Float"
      [] kind = "float64" -> "Double"
      [] kind = "string" -> "Utf8"
      [] kind = "time.Time" -> "Timestamp"
DirectKinds ==
    {"bool", "int8", "int16", "int32", "int64", "uint8", "uint16", "uint32", "uint64",
     "float32", "float64", "string", "time.Time"}

\* tt := int64(*t); types.NullableInt64Value(&tt): *t is read before anything
\* looks at t, and the value handed on is never nil.
Deref(arg, type) == IF arg.nil THEN Panic ELSE CastOk(OptionalOf(type, arg.v))

\* The type switch of castArgToYQL, arm by arm.
CastArgToYQL(arg) ==
    CASE arg.go \in DirectKinds /\ ~arg.ptr -> CastOk(Present(DirectType(arg.go), arg.v))
      [] arg.go \in DirectKinds /\ arg.ptr -> CastOk(Nullable(DirectType(arg.go), arg))
      [] arg.go = "int" /\ ~arg.ptr -> CastOk(Present("Int64", arg.v))
      [] arg.go = "int" /\ arg.ptr -> Deref(arg, "Int64")
      [] arg.go = "uint" /\ ~arg.ptr -> CastOk(Present("Uint64", arg.v))
      [] arg.go = "uint" /\ arg.ptr -> Deref(arg, "Uint64")
      [] arg.go = "[]byte" /\ ~arg.ptr -> CastOk(Present("String", arg.v))
      [] arg.go = "json.RawMessage" /\ ~arg.ptr ->
            IF arg.nil THEN CastOk(NullOf("Json")) ELSE CastOk(Present("Json", arg.v))
      [] OTHER -> Unsupported(arg)

\* The kinds section 4.1 of the contract lists as primitive.
PrimitiveKinds == DirectKinds \cup {"int", "uint", "[]byte"}

\* The type a primitive kind is carried in.
KindType(kind) ==
    CASE kind = "int" -> "Int64"
      [] kind = "uint" -> "Uint64"
      [] kind = "[]byte" -> "String"
      [] OTHER -> DirectType(kind)

Payloads == {0, 1}

\* The kinds castArgToYQL has a value arm for, json.RawMessage aside.
CastKinds == DirectKinds \cup {"int", "uint", "[]byte"}

OneArgs ==
    {Native(k, v) : k \in DirectKinds \cup {"int", "uint"}, v \in Payloads}
    \cup {Ptr(k, v) : k \in CastKinds, v \in Payloads}
    \cup {NilPtr(k) : k \in CastKinds}
    \cup {Native("[]byte", 1), NilSlice("[]byte")}
    \cup {Native("json.RawMessage", 1), NilSlice("json.RawMessage")}
    \cup {Native("struct {}", 0), NilInterface}
    \cup {Typed(Present("Int64", 1)), Typed(NullOf("Utf8"))}

OneInit ==
    /\ oneArg \in OneArgs
    /\ oneRes = NoCast

\* castArgToYQL(oneArg)
CastOne ==
    /\ oneRes = NoCast
    /\ oneRes' = CastArgToYQL(oneArg)
    /\ UNCHANGED oneArg
    /\ UNCHANGED <<renderVars, castVars, execVars, runVars>>

\* C4: a pointer to a supported primitive kind is converted to exactly one
\* nullable value of the corresponding type, null for a nil pointer and holding
\* the pointee otherwise; the call returns and never faults.
C4_PointerToNullable ==
    (oneRes # NoCast /\ oneArg.ptr /\ oneArg.go \in PrimitiveKinds)
        => /\ oneRes.status = "ok"
           /\ Len(oneRes.vals) = 1
           /\ oneRes.vals[1] =
                 IF oneArg.nil THEN NullOf(KindType(oneArg.go))
                 ELSE OptionalOf(KindType(oneArg.go), oneArg.v)

\* The part of C4 the code keeps: a pointer to a kind other than int, uint and
\* []byte becomes the one nullable value.
C4_DirectPointers ==
    (oneRes # NoCast /\ oneArg.ptr /\ oneArg.go \in DirectKinds)
        => /\ oneRes.status = "ok"
           /\ oneRes.vals =
                 <<IF oneArg.nil THEN NullOf(KindType(oneArg.go))
                   ELSE OptionalOf(KindType(oneArg.go), oneArg.v)>>

\* castArgToYQL never panics.
C4_NeverFaults == oneRes.status # "panic"

InitOne == RenderIdle /\ OneInit /\ CastIdle /\ ExecIdle /\ RunIdle

SpecOne == InitOne /\ [][CastOne]_vars

(***************************************************************************)
(* castArgsToYQL (squirrel.go:225-247), prepareYQLString (194-208) and     *)
(* prepareYQLParams (210-223).                                             *)
(***************************************************************************)
IsValueNever(arg) == FALSE

\* case types.Value: of castArgsToYQL's type switch.
IsValue(arg) == arg.go = "types.Value"

\* arg.(types.Value) with its ok, as prepareYQLString and prepareYQLParams ask.
AssertValue(arg) == arg.go = "types.Value"

RECURSIVE CastLoop(_, _, _)
\* The range loop of castArgsToYQL from element k on, yqlArgs being acc.
CastLoop(args, k, acc) ==
    IF k > Len(args)
    THEN [status |-> "ok", vals |-> acc, isnil |-> FALSE, type |-> "", wrap |-> ""]
    ELSE IF IsValue(args[k]) THEN CastLoop(args, k + 1, Append(acc, args[k]))
    ELSE LET r == CastArgToYQL(args[k])
         IN CASE r.status = "panic" -> Panic
              [] r.status = "err" ->
                    [status |-> "err", vals |-> <<>>, isnil |-> TRUE, type |-> r.type,
                     wrap |-> "castArgToYQL"]
              [] OTHER ->
                    CastLoop(args, k + 1, acc \o [j \in 1..Len(r.vals) |-> Typed(r.vals[j])])

CastArgsToYQL(args) ==
    IF Len(args) = 0
    THEN [status |-> "ok", vals |-> <<>>, isnil |-> TRUE, type |-> "", wrap |-> ""]
    ELSE CastLoop(args, 1, <<>>)

\* The YQL name of a primitive type, as the SDK's Type.Yql() gives it.
TypeChars(type) ==
    CASE type = "Bool" -> <<"B", "o", "o", "l">>
      [] type = "Int8" -> <<"I", "n", "t", "8">>
      [] type = "Int16" -> <<"I", "n", "t", "1", "6">>
      [] type = "Int32" -> <<"I", "n", "t", "3", "2">>
      [] type = "Int64" -> <<"I", "n", "t", "6", "4">>
      [] type = "Uint8" -> <<"U", "i", "n", "t", "8">>
      [] type = "Uint16" -> <<"U", "i", "n", "t", "1", "6">>
      [] type = "Uint32" -> <<"U", "i", "n", "t", "3", "2">>
      [] type = "Uint64" -> <<"U", "i", "n", "t", "6", "4">>
      [] type = "Float" -> <<"F", "l", "o", "a", "t">>
      [] type = "Double" -> <<"D", "o", "u", "b", "l", "e">>
      [] type = "Utf8" -> <<"U", "t", "f", "8">>
      [] type = "String" -> <<"S", "t", "r", "i", "n", "g">>
      [] type = "Timestamp" -> <<"T", "i", "m", "e", "s", "t", "a", "m", "p">>
      [] type = "Json" -> <<"J", "s", "o", "n">>

\* yqlArg.Type().Yql()
YqlName(tv) ==
    IF tv.opt
    THEN <<"O", "p", "t", "i", "o", "n", "a", "l", "<">> \o TypeChars(tv.type) \o <<">">>
    ELSE TypeChars(tv.type)

\* The number line 201 prints for the element at 0-based index k.
DeclNumber(k) == k + 1

ParamNumberZeroBased(k) == k

\* The number line 218 prints for the element at 0-based index k.
ParamNumber(k) == k + 1

\* Lines 201-203: one declaration.
DeclLine(k, tv) ==
    <<"D", "E", "C", "L", "A", "R", "E", " ", "$", "p">> \o Itoa(DeclNumber(k)) \o <<" ", "A", "S", " ">> \o YqlName(tv) \o <<";", "\n">>

RECURSIVE StringLoop(_, _, _, _)
\* The range loop of prepareYQLString from element k (1-based) on, sb being the builder.
StringLoop(text, args, k, sb) ==
    IF k > Len(args) THEN [status |-> "ok", text |-> sb \o text, type |-> ""]
    ELSE IF ~AssertValue(args[k])
         THEN [status |-> "err", text |-> <<>>, type |-> TypeName(args[k])]
         ELSE StringLoop(text, args, k + 1, sb \o DeclLine(k - 1, args[k].tv))

PrepareYQLString(text, args) == StringLoop(text, args, 1, <<>>)

RECURSIVE ParamsLoop(_, _, _)
\* The range loop of prepareYQLParams from element k (1-based) on.
ParamsLoop(args, k, acc) ==
    IF k > Len(args)
    THEN [status |-> "ok", params |-> acc, isnil |-> FALSE, type |-> ""]
    ELSE IF ~AssertValue(args[k])
         THEN [status |-> "err", params |-> <<>>, isnil |-> TRUE, type |-> TypeName(args[k])]
         ELSE ParamsLoop(args, k + 1,
                         Append(acc, [name |-> <<"p">> \o Itoa(ParamNumber(k - 1)),
                                      value |-> args[k].tv]))

PrepareYQLParams(args) == ParamsLoop(args, 1, <<>>)

\* Arguments of the list model: values, pointers, nil pointers, a nil
\* json.RawMessage, an unsupported type, and values that are typed already.
ListArgs ==
    {Native("bool", 1), Native("int", 7), NilPtr("int"), NilPtr("int64"), Ptr("string", 1),
     NilSlice("json.RawMessage"), Native("struct {}", 0),
     Typed(Present("Int64", 7)), Typed(NullOf("Utf8"))}

Bodies == {<<>>, <<"$", "p", "1">>, <<";", "\n", "D">>}

CastInit ==
    /\ cpc = "cast"
    /\ cargs \in SeqUpTo(ListArgs, MaxList)
    /\ body \in Bodies
    /\ prepIn = <<>>
    /\ castRes = NoCast
    /\ strRes = NoStr
    /\ parRes = NoPar
    /\ recastRes = NoCast

\* castArgsToYQL(cargs)
CastList ==
    /\ cpc = "cast"
    /\ cpc' = "casted"
    /\ castRes' = CastArgsToYQL(cargs)
    /\ UNCHANGED <<cargs, prepIn, body, strRes, parRes, recastRes>>
    /\ UNCHANGED <<renderVars, oneVars, execVars, runVars>>

\* prepareYQLString(body, input), on castArgsToYQL's output or on the raw list.
PrepareString ==
    /\ cpc = "casted"
    /\ \E input \in {cargs} \cup (IF castRes.status = "ok" THEN {castRes.vals} ELSE {}) :
          /\ prepIn' = input
          /\ strRes' = PrepareYQLString(body, input)
    /\ cpc' = "declared"
    /\ UNCHANGED <<cargs, castRes, body, parRes, recastRes>>
    /\ UNCHANGED <<renderVars, oneVars, execVars, runVars>>

\* prepareYQLParams(input), on the list prepareYQLString was given.
PrepareParams ==
    /\ cpc = "declared"
    /\ parRes' = PrepareYQLParams(prepIn)
    /\ cpc' = "bound"
    /\ UNCHANGED <<cargs, prepIn, castRes, body, strRes, recastRes>>
    /\ UNCHANGED <<renderVars, oneVars, execVars, runVars>>

\* castArgsToYQL on its own output.
Recast ==
    /\ cpc = "bound"
    /\ castRes.status = "ok"
    /\ recastRes' = CastArgsToYQL(castRes.vals)
    /\ cpc' = "done"
    /\ UNCHANGED <<cargs, prepIn, castRes, body, strRes, parRes>>
    /\ UNCHANGED <<renderVars, oneVars, execVars, runVars>>

CastNext ==
    \/ CastList
    \/ PrepareString
    \/ PrepareParams
    \/ Recast

(***************************************************************************)
(* Reading a declared query back: the declaration lines in front of the    *)
(* body, each `DECLARE $p<digits> AS <type>;` and a line break.            *)
(***************************************************************************)
DigitValue(c) ==
    CASE c = "0" -> 0 [] c = "1" -> 1 [] c = "2" -> 2 [] c = "3" -> 3 [] c = "4" -> 4
      [] c = "5" -> 5 [] c = "6" -> 6 [] c = "7" -> 7 [] c = "8" -> 8 [] c = "9" -> 9
      [] OTHER -> -1

RECURSIVE Atoi(_)
\* The number a sequence of decimal digits writes, -1 when it writes none.
Atoi(ds) ==
    IF Len(ds) = 0 \/ DigitValue(ds[Len(ds)]) = -1 THEN -1
    ELSE IF Len(ds) = 1 THEN DigitValue(ds[1])
    ELSE LET hi == Atoi(SubSeq(ds, 1, Len(ds) - 1))
         IN IF hi = -1 THEN -1 ELSE 10 * hi + DigitValue(ds[Len(ds)])

DeclPrefix == <<"D", "E", "C", "L", "A", "R", "E", " ", "$", "p">>

RECURSIVE ParseDecls(_, _)
\* The first n declaration lines of t: [ok, lines, rest].
ParseDecls(t, n) ==
    IF n = 0 THEN [ok |-> TRUE, lines |-> <<>>, rest |-> t]
    ELSE LET a == Index(t, <<" ", "A", "S", " ">>)
             e == Index(t, <<";", "\n">>)
         IN IF SubSeq(t, 1, Len(DeclPrefix)) # DeclPrefix \/ a = -1 \/ e = -1 \/ e < a
            THEN [ok |-> FALSE, lines |-> <<>>, rest |-> t]
            ELSE LET more == ParseDecls(SubSeq(t, e + 3, Len(t)), n - 1)
                 IN [ok |-> more.ok,
                     lines |-> <<[number |-> Atoi(SubSeq(t, Len(DeclPrefix) + 1, a)),
                                  type |-> SubSeq(t, a + 5, e)]>> \o more.lines,
                     rest |-> more.rest]

Assembled == cpc \in {"bound", "done"}

\* C5: the output of a successful castArgsToYQL, of length n, makes
\* prepareYQLString and prepareYQLParams succeed, gives n declaration lines
\* numbered 1..n in front of the unchanged body and n bindings named p1..pn, the
\* i-th line's type and the i-th binding's value being those of the i-th argument.
C5_DeclarationsMatchBindings ==
    (Assembled /\ castRes.status = "ok" /\ prepIn = castRes.vals)
        => LET n == Len(castRes.vals)
               d == ParseDecls(strRes.text, n)
           IN /\ strRes.status = "ok"
              /\ parRes.status = "ok"
              /\ Len(parRes.params) = n
              /\ d.ok
              /\ d.rest = body
              /\ \A k \in 1..n :
                    /\ d.lines[k].number = k
                    /\ d.lines[k].type = YqlName(castRes.vals[k].tv)
                    /\ parRes.params[k].name = <<"p">> \o Itoa(k)
                    /\ Atoi(Tail(parRes.params[k].name)) = d.lines[k].number
                    /\ parRes.params[k].value = castRes.vals[k].tv

C5_Witness ==
    /\ Assembled
    /\ castRes.status = "ok"
    /\ prepIn = castRes.vals
    /\ Len(cargs) = 3
    /\ cargs[1] = Native("int", 7)
    /\ cargs[2] = Typed(NullOf("Utf8"))
    /\ body = <<"$", "p", "1">>
    /\ Len(parRes.params) = 3
    /\ parRes.params[3].name = <<"p", "3">>

\* The types castArgToYQL has an arm for.
SupportedNative(arg) ==
    \/ arg.go \in DirectKinds \cup {"int", "uint"}
    \/ arg.go \in {"[]byte", "json.RawMessage"} /\ ~arg.ptr

Acceptable(arg) == arg.go = "types.Value" \/ SupportedNative(arg)

FirstUnacceptable(args) == Min({k \in 1..Len(args) : ~Acceptable(args[k])})

FirstUntyped(args) == Min({k \in 1..Len(args) : args[k].go # "types.Value"})

\* C8: castArgsToYQL stops at the first element that is neither a TypedValue nor
\* of a supported native type and returns the wrapped UnsupportedType error with
\* no list; prepareYQLString and prepareYQLParams stop at the first argument that
\* is no TypedValue and return NotTypedValue with an empty text and no list; the
\* two fail on the same lists, and nothing partial comes with an error.
C8_FailureAtomicity ==
    /\ (cpc # "cast" /\ \E k \in 1..Len(cargs) : ~Acceptable(cargs[k]))
          => castRes = [status |-> "err", vals |-> <<>>, isnil |-> TRUE,
                        type |-> TypeName(cargs[FirstUnacceptable(cargs)]),
                        wrap |-> "castArgToYQL"]
    /\ (Assembled /\ \E k \in 1..Len(prepIn) : prepIn[k].go # "types.Value")
          => LET t == TypeName(prepIn[FirstUntyped(prepIn)])
             IN /\ strRes = [status |-> "err", text |-> <<>>, type |-> t]
                /\ parRes = [status |-> "err", params |-> <<>>, isnil |-> TRUE, type |-> t]
    /\ Assembled => (strRes.status = "err" <=> parRes.status = "err")

\* The part of C8 the code keeps: whenever castArgsToYQL returns, it returns the
\* error of the first unacceptable element with no list or a whole list; the
\* assembler's two functions fail together, on the first argument that is no
\* TypedValue, with nothing partial.
FailureAtomicityWhenReturning ==
    /\ (cpc # "cast" /\ castRes.status # "panic")
          => IF \E k \in 1..Len(cargs) : ~Acceptable(cargs[k])
             THEN castRes = [status |-> "err", vals |-> <<>>, isnil |-> TRUE,
                             type |-> TypeName(cargs[FirstUnacceptable(cargs)]),
                             wrap |-> "castArgToYQL"]
             ELSE castRes.status = "ok" /\ Len(castRes.vals) = Len(cargs)
    /\ (Assembled /\ \E k \in 1..Len(prepIn) : prepIn[k].go # "types.Value")
          => LET t == TypeName(prepIn[FirstUntyped(prepIn)])
             IN /\ strRes = [status |-> "err", text |-> <<>>, type |-> t]
                /\ parRes = [status |-> "err", params |-> <<>>, isnil |-> TRUE, type |-> t]
    /\ Assembled => (strRes.status = "err" <=> parRes.status = "err")

\* C9: castArgsToYQL returns an element that is a TypedValue already as it is,
\* in its place, and applied to its own output it succeeds and returns the same
\* values in the same order.
C9_PassThroughIdempotent ==
    /\ (cpc # "cast" /\ castRes.status = "ok")
          => /\ Len(castRes.vals) = Len(cargs)
             /\ \A k \in 1..Len(cargs) :
                   cargs[k].go = "types.Value" => castRes.vals[k] = cargs[k]
    /\ cpc = "done"
          => /\ recastRes.status = "ok"
             /\ recastRes.vals = castRes.vals

C9_Witness ==
    /\ cpc = "done"
    /\ Len(cargs) = 3
    /\ cargs[1] = Typed(Present("Int64", 7))
    /\ cargs[2] = Ptr("string", 1)
    /\ castRes.vals[1] = cargs[1]
    /\ recastRes.vals = castRes.vals

InitCast == RenderIdle /\ OneIdle /\ CastInit /\ ExecIdle /\ RunIdle

SpecCast == InitCast /\ [][CastNext]_vars

(***************************************************************************)
(* ExecWith (squirrel.go:111-117), QueryWith (120-126), QueryRowWith       *)
(* (129-132), and Scan on the Row that QueryRowWith returns.               *)
(***************************************************************************)
Queries == {"q1", "q2"}
ArgLists == {<<>>, <<1>>}

CallToSql == [fn |-> "ToSql", query |-> "", args |-> <<>>]
CallDb(fn, query, args) == [fn |-> fn, query |-> query, args |-> args]

ExecInit ==
    /\ epc = "start"
    /\ op \in {"Exec", "Query", "QueryRow"}
    /\ prod \in [err : {"", "e1"}, query : Queries, args : ArgLists]
    /\ dbReply \in [val : {"r1", "r2"}, err : {"", "d1"}]
    /\ calls = <<>>
    /\ eres = NoReply
    /\ scanRes = ""

ProductionFailedNever(p) == FALSE

\* if err != nil, after query, args, err := s.ToSql()
ProductionFailed(p) == p.err # ""

RowDroppingErr(cursor, err) == [val |-> cursor, err |-> ""]

\* &Row{RowScanner: cursor, err: err}
RowOf(cursor, err) == [val |-> cursor, err |-> err]

\* query, args, err := s.ToSql()
Produce ==
    /\ epc = "start"
    /\ epc' = "produced"
    /\ calls' = Append(calls, CallToSql)
    /\ UNCHANGED <<op, prod, dbReply, eres, scanRes>>
    /\ UNCHANGED <<renderVars, oneVars, castVars, runVars>>

\* ExecWith and QueryWith, lines 113-115 and 122-124: the bare return hands back
\* the zero result and err.
ReturnProductionError ==
    /\ epc = "produced"
    /\ op \in {"Exec", "Query"}
    /\ ProductionFailed(prod)
    /\ eres' = [val |-> "", err |-> prod.err]
    /\ epc' = "done"
    /\ UNCHANGED <<op, prod, dbReply, calls, scanRes>>
    /\ UNCHANGED <<renderVars, oneVars, castVars, runVars>>

\* ExecWith and QueryWith, lines 116 and 125: return db.Exec(query, args...).
CallBackend ==
    /\ epc = "produced"
    /\ op \in {"Exec", "Query"}
    /\ ~ProductionFailed(prod)
    /\ calls' = Append(calls, CallDb(op, prod.query, prod.args))
    /\ eres' = dbReply
    /\ epc' = "done"
    /\ UNCHANGED <<op, prod, dbReply, scanRes>>
    /\ UNCHANGED <<renderVars, oneVars, castVars, runVars>>

\* QueryRowWith, line 131.
CallQueryRow ==
    /\ epc = "produced"
    /\ op = "QueryRow"
    /\ calls' = Append(calls, CallDb("QueryRow", prod.query, prod.args))
    /\ eres' = RowOf(dbReply.val, prod.err)
    /\ epc' = "done"
    /\ UNCHANGED <<op, prod, dbReply, scanRes>>
    /\ UNCHANGED <<renderVars, oneVars, castVars, runVars>>

\* The cursor's own Scan: its error, or "nil".
CursorScan == IF dbReply.err # "" THEN dbReply.err ELSE "nil"

\* Row.Scan: the error the row carries, before any read of the cursor.
RowScan(row) == IF row.err # "" THEN row.err ELSE CursorScan

ScanRow ==
    /\ epc = "done"
    /\ op = "QueryRow"
    /\ scanRes' = RowScan(eres)
    /\ epc' = "scanned"
    /\ UNCHANGED <<op, prod, dbReply, calls, eres>>
    /\ UNCHANGED <<renderVars, oneVars, castVars, runVars>>

ExecNext ==
    \/ Produce
    \/ ReturnProductionError
    \/ CallBackend
    \/ CallQueryRow
    \/ ScanRow

BackendCalls == SelectSeq(calls, LAMBDA c : c.fn # "ToSql")

\* C6: in ExecWith and QueryWith a failed ToSql is returned and the backend is
\* never called; after a successful ToSql the backend is called once, after it,
\* with the produced text and arguments, and its result is returned as it is.
C6_ExecQueryAbortOnError ==
    op \in {"Exec", "Query"} =>
        /\ prod.err # "" => BackendCalls = <<>>
        /\ epc \in {"start", "produced"} => BackendCalls = <<>>
        /\ epc = "done" =>
              IF prod.err # ""
              THEN calls = <<CallToSql>> /\ eres = [val |-> "", err |-> prod.err]
              ELSE /\ calls = <<CallToSql, CallDb(op, prod.query, prod.args)>>
                   /\ eres = dbReply

C6_Witness ==
    /\ op = "Exec"
    /\ epc = "done"
    /\ prod.err = "e1"
    /\ dbReply.err = "d1"
    /\ eres.err = "e1"
    /\ BackendCalls = <<>>

\* C7: QueryRowWith calls the backend's QueryRow once whether ToSql failed or
\* not, and the row it returns carries the backend's cursor and ToSql's error; a
\* Scan after a failed ToSql gives that error, not the cursor's.
C7_QueryRowAlwaysCalls ==
    op = "QueryRow" =>
        /\ epc \in {"done", "scanned"} =>
              /\ calls = <<CallToSql, CallDb("QueryRow", prod.query, prod.args)>>
              /\ eres.val = dbReply.val
              /\ eres.err = prod.err
        /\ epc = "scanned" =>
              scanRes = IF prod.err # "" THEN prod.err
                        ELSE IF dbReply.err # "" THEN dbReply.err ELSE "nil"

C7_Witness ==
    /\ op = "QueryRow"
    /\ epc = "scanned"
    /\ prod.err = "e1"
    /\ dbReply.err = "d1"
    /\ Len(BackendCalls) = 1
    /\ scanRes = "e1"

InitExec == RenderIdle /\ OneIdle /\ CastIdle /\ ExecInit /\ RunIdle

SpecExec == InitExec /\ [][ExecNext]_vars

(***************************************************************************)
(* setRunWith (squirrel.go:94-102) and the runner WrapStdSql returns       *)
(* (72-92). A backend is a BaseRunner; ctx says it is a StdSqlCtx, std     *)
(* that it is a StdSql.                                                    *)
(***************************************************************************)
Backends == [id : {"b1", "b2"}, ctx : BOOLEAN, std : BOOLEAN]

RunInit ==
    /\ wpc = "start"
    /\ backend \in Backends
    /\ stored = [wrap |-> "", inner |-> ""]
    /\ wcalls = <<>>

\* WrapStdSqlCtx(r): the context-aware runner around r.
WrapStdSqlCtx(b) == [wrap |-> "stdsqlCtxRunner", inner |-> b.id]

\* WrapStdSql(r): &stdsqlRunner{r}
WrapStdSql(b) == [wrap |-> "stdsqlRunner", inner |-> b.id]

AdaptedStdFirst(b) ==
    CASE b.std -> WrapStdSql(b)
      [] b.ctx -> WrapStdSqlCtx(b)
      [] OTHER -> [wrap |-> "", inner |-> b.id]

\* The type switch of setRunWith: the first case that matches is taken.
Adapted(b) ==
    CASE b.ctx -> WrapStdSqlCtx(b)
      [] b.std -> WrapStdSql(b)
      [] OTHER -> [wrap |-> "", inner |-> b.id]

\* builder.Set(b, "RunWith", runner)
SetRunWith ==
    /\ wpc = "start"
    /\ stored' = Adapted(backend)
    /\ wpc' = "set"
    /\ UNCHANGED <<backend, wcalls>>
    /\ UNCHANGED <<renderVars, oneVars, castVars, execVars>>

\* What a call of fn on the stored runner returns.
Returned(fn) ==
    CASE fn = "Exec" -> "sql.Result"
      [] fn = "Query" -> "*sql.Rows"
      [] fn = "QueryRow" -> "RowScanner(*sql.Row)"

\* Exec and Query on the stored runner. The wrappers embed the backend, so the
\* call is the backend's own method; an un-adapted runner is the backend.
RunnerForward ==
    /\ wpc = "set"
    /\ Len(wcalls) < MaxCalls
    /\ \E fn \in {"Exec", "Query"}, q \in Queries, a \in ArgLists :
          wcalls' = Append(wcalls, [via |-> stored.wrap, fn |-> fn, query |-> q, args |-> a,
                                    to |-> stored.inner, tofn |-> fn, toquery |-> q,
                                    toargs |-> a, ret |-> Returned(fn)])
    /\ UNCHANGED <<wpc, backend, stored>>
    /\ UNCHANGED <<renderVars, oneVars, castVars, execVars>>

\* (*stdsqlRunner).QueryRow: the backend's *sql.Row, returned as a RowScanner.
RunnerQueryRow ==
    /\ wpc = "set"
    /\ stored.wrap = "stdsqlRunner"
    /\ Len(wcalls) < MaxCalls
    /\ \E q \in Queries, a \in ArgLists :
          wcalls' = Append(wcalls, [via |-> stored.wrap, fn |-> "QueryRow", query |-> q,
                                    args |-> a, to |-> stored.inner, tofn |-> "QueryRow",
                                    toquery |-> q, toargs |-> a,
                                    ret |-> Returned("QueryRow")])
    /\ UNCHANGED <<wpc, backend, stored>>
    /\ UNCHANGED <<renderVars, oneVars, castVars, execVars>>

RunNext ==
    \/ SetRunWith
    \/ RunnerForward
    \/ RunnerQueryRow

\* C10: setRunWith wraps a backend that is a StdSqlCtx with the context-aware
\* wrapper, also when it is a StdSql too; one that is only a StdSql with the
\* plain wrapper, which hands Exec, Query and QueryRow to the backend with the
\* same text and arguments and returns QueryRow's *sql.Row as a RowScanner; any
\* other is stored as it is. The stored runner wraps or is the backend given.
C10_AdaptHighestFirst ==
    wpc = "set" =>
        /\ stored.inner = backend.id
        /\ backend.ctx => stored.wrap = "stdsqlCtxRunner"
        /\ (~backend.ctx /\ backend.std) => stored.wrap = "stdsqlRunner"
        /\ (~backend.ctx /\ ~backend.std) => stored.wrap = ""
        /\ \A k \in 1..Len(wcalls) :
              LET c == wcalls[k]
              IN /\ c.to = backend.id
                 /\ <<c.tofn, c.toquery, c.toargs>> = <<c.fn, c.query, c.args>>
                 /\ c.via = stored.wrap
                 /\ (c.fn = "QueryRow" /\ c.via = "stdsqlRunner")
                       => (c.ret = "RowScanner(*sql.Row)" /\ ~backend.ctx /\ backend.std)

C10_Witness ==
    /\ wpc = "set"
    /\ backend.ctx
    /\ backend.std
    /\ stored = [wrap |-> "stdsqlCtxRunner", inner |-> backend.id]
    /\ Len(wcalls) = 2

InitRun == RenderIdle /\ OneIdle /\ CastIdle /\ ExecIdle /\ RunInit

SpecRun == InitRun /\ [][RunNext]_vars

====
